---------------------------- MODULE Spec2Model ----------------------------
(***************************************************************************)
(* A model of the notebook allocentric_vs_egocentric.ipynb.                *)
(*                                                                         *)
(* Numbers.  The notebook computes in floating point; the model computes   *)
(* the same quantities exactly.  The object centers of the allocentric     *)
(* scene are 2 cos and 2 sin of multiples of pi/10, so a number is an      *)
(* element of Z[t] with t = 2 cos(pi/10), t^4 = 5 t^2 - 5: the tuple       *)
(* <<a0, a1, a2, a3>> is a0 + a1 t + a2 t^2 + a3 t^3 (t = 1.9021130...).   *)
(* A vector is a triple of numbers.  A scipy Rotation is the quaternion    *)
(* it stores, scalar last, kept up to a positive factor (scipy keeps it    *)
(* at unit length).  A rotation matrix is a record [m, d]: the matrix m    *)
(* of numbers over the common integer denominator d, in lowest terms.      *)
(* Vectors handed to the alignment step have an integer length.            *)
(*                                                                         *)
(* The arithmetic is written as functions, F[x, y], which take values.     *)
(***************************************************************************)
EXTENDS Integers, Sequences, FiniteSets, TLC

VARIABLES
    ns,          \* the kernel's global namespace: name -> value
    out,         \* per cell, what its last run ended with
    mp_offline,  \* meshplot's module attribute mp.offline
    c_in,        \* inputs of one allocentric-to-egocentric conversion
    c_out,       \* its outcome
    v_args,      \* the caller's dict objects and arguments of one visualize3d call
    v_out        \* its outcome

vars == <<ns, out, mp_offline, c_in, c_out, v_args, v_out>>

---------------------------------------------------------------------------
(* Bounds of the model *)

\* coordinates of the target directions tried by the conversion
MaxCoord == 2
\* components of the quaternions R.random() is drawn from
MaxQ == 1
\* length of each list handed to visualize3d
MaxItems == 2

---------------------------------------------------------------------------
(* Values computed once *)

\* the element of a set of one element.  TheOne({ e : x \in {v} }) is e with
\* x standing for the value v, which is computed once.
TheOne(S) == CHOOSE x \in S : TRUE

\* the sequence f, all its items computed
AsTuple(f) == <<>> \o f

\* the function f, all its values computed
Computed(f) == <<>> @@ f

---------------------------------------------------------------------------
(* Numbers: the ring Z[t], t = 2 cos(pi/10) *)

Number == Seq(Int)

Vector == Seq(Number)

Matrix == [m : Seq(Vector), d : Int]

Abs(x) == IF x < 0 THEN -x ELSE x

GCD[x \in Int, y \in Int] == IF y = 0 THEN Abs(x) ELSE GCD[Abs(y), Abs(x) % Abs(y)]

\* the integer n as a number
Num(n) == <<n, 0, 0, 0>>

Add[x \in Number, y \in Number] == << x[1] + y[1], x[2] + y[2], x[3] + y[3], x[4] + y[4] >>

Sub[x \in Number, y \in Number] == << x[1] - y[1], x[2] - y[2], x[3] - y[3], x[4] - y[4] >>

Neg[x \in Number] == << -x[1], -x[2], -x[3], -x[4] >>

\* the integer k times x
Scale[k \in Int, x \in Number] == << k * x[1], k * x[2], k * x[3], k * x[4] >>

\* x over the integer g, which divides its coefficients
NumDiv[x \in Number, g \in Int] == << x[1] \div g, x[2] \div g, x[3] \div g, x[4] \div g >>

\* the product: t^4 = 5 t^2 - 5, t^5 = 5 t^3 - 5 t, t^6 = 20 t^2 - 25
Mul[x \in Number, y \in Number] ==
    LET p4 == x[2] * y[4] + x[3] * y[3] + x[4] * y[2]
        p5 == x[3] * y[4] + x[4] * y[3]
        p6 == x[4] * y[4]
    IN  << x[1] * y[1] - 5 * p4 - 25 * p6,
           x[1] * y[2] + x[2] * y[1] - 5 * p5,
           x[1] * y[3] + x[2] * y[2] + x[3] * y[1] + 5 * p4 + 20 * p6,
           x[1] * y[4] + x[2] * y[3] + x[3] * y[2] + x[4] * y[1] + 5 * p5 >>

IsRational(x) == x[2] = 0 /\ x[3] = 0 /\ x[4] = 0

NumGCD[x \in Number] == GCD[GCD[x[1], x[2]], GCD[x[3], x[4]]]

SgnInt(n) == IF n > 0 THEN 1 ELSE IF n < 0 THEN -1 ELSE 0

\* the sign of p + q t^2, where 2 t^2 = 5 + sqrt 5
SgnEven[p \in Int, q \in Int] ==
    LET u == 2 * p + 5 * q
    IN  IF SgnInt(u) * SgnInt(q) >= 0
        THEN (IF u # 0 THEN SgnInt(u) ELSE SgnInt(q))
        ELSE SgnInt(u) * SgnInt(u * u - 5 * q * q)

\* the sign of sA A + sB B, given the signs sA and sB of the even part A and
\* the odd part B of a number and the square difference D = A^2 - B^2
SgnParts[sA \in Int, sB \in Int, D \in Number] ==
    IF sA * sB >= 0
    THEN (IF sA # 0 THEN sA ELSE sB)
    ELSE sA * SgnEven[D[1], D[3]]

\* the sign of the number x (t > 0)
Sgn[x \in Number] ==
    SgnParts[SgnEven[x[1], x[3]], SgnEven[x[2], x[4]],
             Sub[Mul[<<x[1], 0, x[3], 0>>, <<x[1], 0, x[3], 0>>],
                 Mul[<<0, x[2], 0, x[4]>>, <<0, x[2], 0, x[4]>>]]]

Less[x \in Number, y \in Number] == Sgn[Sub[x, y]] < 0

AbsNum[x \in Number] == IF Sgn[x] < 0 THEN Neg[x] ELSE x

\* the conjugate t -> -t
ConjT[x \in Number] == << x[1], -x[2], x[3], -x[4] >>

\* the conjugate t^2 -> 5 - t^2 of a number without odd part
ConjS[x \in Number] == << x[1] + 5 * x[3], 0, -x[3], 0 >>

\* x without the common integer factor of its coefficients (x not zero)
Primitive[x \in Number] == NumDiv[x, NumGCD[x]]

\* for a number p with odd part and c its conjugate: r with p r an integer
ConjugateProduct[c \in Number, e \in Number] ==
    IF IsRational(e) THEN c ELSE Primitive[Mul[c, ConjS[e]]]

\* a number r such that d r is an integer (d not zero)
Rationaliser[d \in Number] ==
    IF IsRational(d) THEN Num(1)
    ELSE IF d[2] = 0 /\ d[4] = 0 THEN ConjS[Primitive[d]]
    ELSE ConjugateProduct[ConjT[Primitive[d]],
                          Primitive[Mul[Primitive[d], ConjT[Primitive[d]]]]]

\* from <<2 cos(k a), 2 cos((k + 1) a)>> to the pair for k + 1, a = pi/10
CosStep[p \in Seq(Number)] == << p[2], Sub[Mul[<<0, 1, 0, 0>>, p[2]], p[1]] >>

CosPair[k \in Nat] == IF k = 0 THEN << Num(2), <<0, 1, 0, 0>> >> ELSE CosStep[CosPair[k - 1]]

\* 2 cos(k pi/10) and 2 sin(k pi/10)
TwoCos[k \in Int] == CosPair[Abs(k)][1]

TwoSin[k \in Int] == TwoCos[5 - k]

---------------------------------------------------------------------------
(* Vector arithmetic (numpy) *)

\* a triple of integers as a vector
Vec(v) == << Num(v[1]), Num(v[2]), Num(v[3]) >>

Dot[a \in Vector, b \in Vector] ==
    Add[Add[Mul[a[1], b[1]], Mul[a[2], b[2]]], Mul[a[3], b[3]]]

Cross[a \in Vector, b \in Vector] ==
    << Sub[Mul[a[2], b[3]], Mul[a[3], b[2]]],
       Sub[Mul[a[3], b[1]], Mul[a[1], b[3]]],
       Sub[Mul[a[1], b[2]], Mul[a[2], b[1]]] >>

ZeroVec == Vec(<<0, 0, 0>>)

IsSquare(n) == \E k \in 0..n : k * k = n

\* the square root of a number that is the square of an integer
Sqrt[x \in Number] == CHOOSE k \in 0..x[1] : Num(k * k) = x

\* the length of a vector whose length is an integer
Norm[v \in Vector] == Sqrt[Dot[v, v]]

\* a Python index (negative ones count from the end) as an index of a triple
PyIdx(j) == (j % 3) + 1

\* np.argmin of a triple as a Python index: the first position of the least
ArgMin[a \in Vector] ==
    CHOOSE i \in 0..2 :
        /\ \A j \in 0..2 : ~Less[a[j + 1], a[i + 1]]
        /\ \A j \in 0..2 : j < i => Less[a[i + 1], a[j + 1]]

\* np.argmin(np.abs(a))
ArgMinAbs[a \in Vector] == ArgMin[<< AbsNum[a[1]], AbsNum[a[2]], AbsNum[a[3]] >>]

---------------------------------------------------------------------------
(* Rotation matrices *)

Eye3 == << Vec(<<1, 0, 0>>), Vec(<<0, 1, 0>>), Vec(<<0, 0, 1>>) >>

MatGCD[m \in Seq(Vector), d \in Int] ==
    GCD[d, GCD[GCD[GCD[NumGCD[m[1][1]], NumGCD[m[1][2]]],
                   GCD[NumGCD[m[1][3]], NumGCD[m[2][1]]]],
               GCD[GCD[GCD[NumGCD[m[2][2]], NumGCD[m[2][3]]],
                       GCD[NumGCD[m[3][1]], NumGCD[m[3][2]]]],
                   NumGCD[m[3][3]]]]]

\* the matrix m with every entry over the integer g
MatDiv[m \in Seq(Vector), g \in Int] ==
    << << NumDiv[m[1][1], g], NumDiv[m[1][2], g], NumDiv[m[1][3], g] >>,
       << NumDiv[m[2][1], g], NumDiv[m[2][2], g], NumDiv[m[2][3], g] >>,
       << NumDiv[m[3][1], g], NumDiv[m[3][2], g], NumDiv[m[3][3], g] >> >>

\* the matrix m with every entry times the number r
MatTimes[m \in Seq(Vector), r \in Number] ==
    << << Mul[m[1][1], r], Mul[m[1][2], r], Mul[m[1][3], r] >>,
       << Mul[m[2][1], r], Mul[m[2][2], r], Mul[m[2][3], r] >>,
       << Mul[m[3][1], r], Mul[m[3][2], r], Mul[m[3][3], r] >> >>

\* the matrix m / d, d an integer, in lowest terms with a positive denominator
Mat[m \in Seq(Vector), d \in Int] ==
    [m |-> MatDiv[m, SgnInt(d) * MatGCD[m, d]], d |-> d \div (SgnInt(d) * MatGCD[m, d])]

\* the matrix m / den for numbers without common integer factor: numerator
\* and denominator times r, which makes the denominator an integer
MatRationalised[m \in Seq(Vector), den \in Number, r \in Number] ==
    Mat[MatTimes[m, r], Mul[den, r][1]]

\* the matrix m / den, den a number
MatOver[m \in Seq(Vector), den \in Number] ==
    MatRationalised[MatDiv[m, GCD[NumGCD[den], MatGCD[m, 0]]],
                    NumDiv[den, GCD[NumGCD[den], MatGCD[m, 0]]],
                    Rationaliser[den]]

\* np.eye(3)
NpEye3 == Mat[Eye3, 1]

\* row i of A times column j of B
RowByColumn[A \in Seq(Vector), B \in Seq(Vector), i \in 1..3, j \in 1..3] ==
    Add[Add[Mul[A[i][1], B[1][j]], Mul[A[i][2], B[2][j]]], Mul[A[i][3], B[3][j]]]

MatMul[A \in Matrix, B \in Matrix] ==
    Mat[<< << RowByColumn[A.m, B.m, 1, 1], RowByColumn[A.m, B.m, 1, 2], RowByColumn[A.m, B.m, 1, 3] >>,
           << RowByColumn[A.m, B.m, 2, 1], RowByColumn[A.m, B.m, 2, 2], RowByColumn[A.m, B.m, 2, 3] >>,
           << RowByColumn[A.m, B.m, 3, 1], RowByColumn[A.m, B.m, 3, 2], RowByColumn[A.m, B.m, 3, 3] >> >>,
        A.d * B.d]

\* the matrix applied to a vector: the vector n / d
MatVec[A \in Matrix, v \in Vector] ==
    [n |-> << Dot[A.m[1], v], Dot[A.m[2], v], Dot[A.m[3], v] >>, d |-> A.d]

---------------------------------------------------------------------------
(* scipy.spatial.transform.Rotation *)

\* the quaternion q with every component over the integer g
QuatDiv[q \in Vector, g \in Int] ==
    << NumDiv[q[1], g], NumDiv[q[2], g], NumDiv[q[3], g], NumDiv[q[4], g] >>

\* a quaternion without a common integer factor (scipy normalises to unit
\* length)
Quat[q \in Vector] ==
    QuatDiv[q, GCD[GCD[NumGCD[q[1]], NumGCD[q[2]]], GCD[NumGCD[q[3]], NumGCD[q[4]]]]]

\* a quaternion of four integers
QuatInt(q) == Quat[<< Num(q[1]), Num(q[2]), Num(q[3]), Num(q[4]) >>]

IdentityQuat == QuatInt(<<0, 0, 0, 1>>)

\* Rotation.as_matrix
AsMatrix[q \in Vector] ==
    LET x == q[1]  y == q[2]  z == q[3]  w == q[4]
        xx == Mul[x, x]  yy == Mul[y, y]  zz == Mul[z, z]  ww == Mul[w, w]
        xy == Mul[x, y]  xz == Mul[x, z]  xw == Mul[x, w]
        yz == Mul[y, z]  yw == Mul[y, w]  zw == Mul[z, w]
    IN  MatOver[<< << Add[Sub[Sub[xx, yy], zz], ww],
                      Scale[2, Sub[xy, zw]],
                      Scale[2, Add[xz, yw]] >>,
                   << Scale[2, Add[xy, zw]],
                      Add[Sub[Sub[yy, xx], zz], ww],
                      Scale[2, Sub[yz, xw]] >>,
                   << Scale[2, Sub[xz, yw]],
                      Scale[2, Add[yz, xw]],
                      Add[Sub[Sub[zz, xx], yy], ww] >> >>,
                Add[Add[xx, yy], Add[zz, ww]]]

\* the quaternion read off a rotation matrix M / d with trace tr / d at the
\* pivot choice
FromPivot[M \in Seq(Vector), d \in Number, tr \in Number, choice \in 1..4] ==
    IF choice = 4
    THEN Quat[<< Sub[M[3][2], M[2][3]], Sub[M[1][3], M[3][1]],
                 Sub[M[2][1], M[1][2]], Add[d, tr] >>]
    ELSE LET i == choice
             j == (i % 3) + 1
             k == (j % 3) + 1
             val == [p \in 1..4 |->
                       IF p = i THEN Add[Sub[d, tr], Scale[2, M[i][i]]]
                       ELSE IF p = j THEN Add[M[j][i], M[i][j]]
                       ELSE IF p = k THEN Add[M[k][i], M[i][k]]
                       ELSE Sub[M[k][j], M[j][k]]]
         IN  Quat[<<val[1], val[2], val[3], val[4]>>]

\* np.argmax of four numbers, from 1: the first position of the greatest
ArgMax[dec \in Vector] ==
    CHOOSE c \in 1..4 :
        /\ \A e \in 1..4 : ~Less[dec[c], dec[e]]
        /\ \A e \in 1..4 : e < c => Less[dec[e], dec[c]]

\* Rotation.from_matrix, for a rotation matrix: the pivot is the largest of
\* the three diagonal entries and the trace
FromMatrix[A \in Matrix] ==
    FromPivot[A.m, Num(A.d), Add[Add[A.m[1][1], A.m[2][2]], A.m[3][3]],
              ArgMax[<< A.m[1][1], A.m[2][2], A.m[3][3],
                        Add[Add[A.m[1][1], A.m[2][2]], A.m[3][3]] >>]]

\* compose_quat(p, q): the Hamilton product, scalar last
ComposeQuat[p \in Vector, q \in Vector] ==
    LET pv == <<p[1], p[2], p[3]>>
        qv == <<q[1], q[2], q[3]>>
        cr == Cross[pv, qv]
    IN  Quat[<< Add[Add[Mul[p[4], qv[1]], Mul[q[4], pv[1]]], cr[1]],
                Add[Add[Mul[p[4], qv[2]], Mul[q[4], pv[2]]], cr[2]],
                Add[Add[Mul[p[4], qv[3]], Mul[q[4], pv[3]]], cr[3]],
                Sub[Mul[p[4], q[4]], Dot[pv, qv]] >>]

\* a slip: the two factors in the other order
RotMulReversed(p, q) == ComposeQuat[q, p]

\* Rotation.__mul__: p * q is the rotation q followed by the rotation p
RotMul(p, q) == ComposeQuat[p, q]

\* Rotation.inv
RotInv[q \in Vector] == << Neg[q[1]], Neg[q[2]], Neg[q[3]], q[4] >>

\* R.random(): a random quaternion, normalised
RandomQuats ==
    { QuatInt(q) : q \in ((0..MaxQ) \X (0..MaxQ) \X (0..MaxQ) \X (0..MaxQ)) \ {<<0, 0, 0, 0>>} }

\* the draws of R.random() tried when a scene cell is run: quarter turns
\* about x and about z, and a third of a turn about (1, 1, 1)
SceneDraws == { QuatInt(<<1, 0, 0, 1>>), QuatInt(<<0, 0, 1, 1>>), QuatInt(<<1, 1, 1, 1>>) }

\* the half turn about the axis r: Rotation.from_rotvec(r / norm(r) * pi)
HalfTurn[r \in Vector] == Quat[<< r[1], r[2], r[3], Num(0) >>]

\* the axis orthogonal to a with zero at the position of the Python index i
AxisAt[a \in Vector, i \in 0..2] ==
    [p \in 1..3 |->
        IF p = PyIdx(i - 1) THEN a[PyIdx(i - 2)]
        ELSE IF p = PyIdx(i - 2) THEN Neg[a[PyIdx(i - 1)]]
        ELSE Num(0)]

\* the axis scipy picks for anti-parallel vectors: orthogonal to a
FlipAxis[a \in Vector] == AsTuple(AxisAt[a, ArgMinAbs[a]])

\* the second result of align_vectors, the root sum squared distance of
\* the two vectors after the alignment: kept as the pair it belongs to
Rssd(a, b) == [kind |-> "rssd", a |-> a, b |-> b]

\* the quaternion of the least rotation taking b's direction to a's, cr
\* their cross product
LeastRotation[cr \in Vector, a \in Vector, b \in Vector] ==
    Quat[<< cr[1], cr[2], cr[3], Add[Num(Norm[a] * Norm[b]), Dot[a, b]] >>]

\* the rotations that stand for the one an align_vectors without a check
\* of its own returns for a zero vector
ZeroVectorRotations == SceneDraws \cup { IdentityQuat }

(***************************************************************************)
(* What R.align_vectors(a, b) can do when a or b is the zero vector.  The  *)
(* notebook calls it without a check of its own and names no scipy         *)
(* version, so the outcome is that of the scipy installed: one that        *)
(* refuses a zero vector raises ValueError; one that fits the rotation by  *)
(* a singular value decomposition returns a rotation and no error, the     *)
(* rotation being whatever the decomposition of the zero matrix gives.     *)
(***************************************************************************)
ZeroVectorOutcomes(a, b) ==
    { [status |-> "ValueError"] }
    \cup { [status |-> "ok", rssd |-> Rssd(a, b), rot |-> q] : q \in ZeroVectorRotations }

\* a slip: every pair with a zero cross product takes the anti-parallel path
AlignVectorsNoSign(a, b) ==
    IF a = ZeroVec \/ b = ZeroVec
    THEN ZeroVectorOutcomes(a, b)
    ELSE IF Cross[b, a] = ZeroVec
    THEN { [status |-> "ok", rssd |-> Rssd(a, b),
            rot |-> RotMul(IdentityQuat, HalfTurn[FlipAxis[a]])] }
    ELSE { [status |-> "ok", rssd |-> Rssd(a, b), rot |-> LeastRotation[Cross[b, a], a, b]] }

\* a slip: the two arguments taken in the other order
AlignVectorsSwapped(a, b) ==
    IF a = ZeroVec \/ b = ZeroVec
    THEN ZeroVectorOutcomes(a, b)
    ELSE IF Cross[a, b] = ZeroVec /\ Sgn[Dot[a, b]] < 0
    THEN { [status |-> "ok", rssd |-> Rssd(a, b),
            rot |-> RotMul(IdentityQuat, HalfTurn[FlipAxis[b]])] }
    ELSE { [status |-> "ok", rssd |-> Rssd(a, b), rot |-> LeastRotation[Cross[a, b], a, b]] }

(***************************************************************************)
(* R.align_vectors(a, b) for one pair of vectors: the set of its possible  *)
(* outcomes.  For non-zero vectors there is one: the rotation of least     *)
(* angle that takes b's direction to a's, and the rssd.  scipy normalises  *)
(* both vectors, takes cross = b x a and the angle theta between them, and *)
(* returns the rotation by theta about cross; its quaternion is            *)
(* (cross, 1 + cos theta) up to a factor, here multiplied through by       *)
(* |a||b|.  Exactly anti-parallel vectors have no cross product: scipy     *)
(* then makes a half turn about FlipAxis[a].  In floating point a pair     *)
(* within 0.001 of anti-parallel is turned by a half turn about cross      *)
(* first and by the small rest after, which is the same rotation.  For a   *)
(* zero vector the outcomes are ZeroVectorOutcomes.                        *)
(***************************************************************************)
AlignVectors(a, b) ==
    IF a = ZeroVec \/ b = ZeroVec
    THEN ZeroVectorOutcomes(a, b)
    ELSE IF Cross[b, a] = ZeroVec /\ Sgn[Dot[a, b]] < 0
    THEN { [status |-> "ok", rssd |-> Rssd(a, b),
            rot |-> RotMul(IdentityQuat, HalfTurn[FlipAxis[a]])] }
    ELSE { [status |-> "ok", rssd |-> Rssd(a, b), rot |-> LeastRotation[Cross[b, a], a, b]] }

---------------------------------------------------------------------------
(* transforms3d.affines.compose and trimesh.creation.box *)

Ones3 == Vec(<<1, 1, 1>>)

\* compose(T, R, Z): the affine with linear part R diag(Z) and translation T
Compose[T \in Vector, Rm \in Matrix, Z \in Vector] ==
    [R |-> Mat[<< << Mul[Rm.m[1][1], Z[1]], Mul[Rm.m[1][2], Z[2]], Mul[Rm.m[1][3], Z[3]] >>,
                  << Mul[Rm.m[2][1], Z[1]], Mul[Rm.m[2][2], Z[2]], Mul[Rm.m[2][3], Z[3]] >>,
                  << Mul[Rm.m[3][1], Z[1]], Mul[Rm.m[3][2], Z[2]], Mul[Rm.m[3][3], Z[3]] >> >>,
               Rm.d],
     T |-> T]

\* the box mesh: fixed by its extents and its transform
Box(extents, transform) == [extents |-> extents, transform |-> transform]

BoxVertices(box) == [kind |-> "vertices", of |-> box]

BoxFaces(box) == [kind |-> "faces", of |-> box]

---------------------------------------------------------------------------
(* Python dicts and lists *)

\* a dict is a function from keys to values
\* d[key] = val
DictSet(m, key, val) == (key :> val) @@ m

\* del d[key]
DictDel(m, key) == Computed([k \in DOMAIN m \ {key} |-> m[k]])

\* an argument that may be None: the list is <<>> when it is
None == [none |-> TRUE, list |-> <<>>]

Some(list) == [none |-> FALSE, list |-> list]

---------------------------------------------------------------------------
(* visualize3d *)

(***************************************************************************)
(* The dicts handed to visualize3d are objects: a heap maps each object's  *)
(* id to the dict it holds at the moment, and a list holds ids, so that    *)
(* one dict listed twice, or in two lists, is one object.                  *)
(***************************************************************************)

\* attributes of the objects a mesh dict may carry
Vertices(mesh) == [kind |-> "vertices", of |-> mesh]

Faces(mesh) == [kind |-> "faces", of |-> mesh]

AsBoxes(voxel) == [kind |-> "as_boxes", of |-> voxel]

\* a slip: the 'mesh' key is left in the dict
RewriteMeshKeepsKey(m) ==
    IF "mesh" \in DOMAIN m
    THEN DictSet(DictSet(m, "v", Vertices(m["mesh"])), "f", Faces(m["mesh"]))
    ELSE IF "voxel" \in DOMAIN m
    THEN DictDel(DictSet(DictSet(m, "v", Vertices(AsBoxes(m["voxel"]))),
                         "f", Faces(AsBoxes(m["voxel"]))), "voxel")
    ELSE m

\* the body of the mesh loop before the plot call: what the dict m holds
\* after it
RewriteMesh(m) ==
    IF "mesh" \in DOMAIN m
    THEN DictDel(DictSet(DictSet(m, "v", Vertices(m["mesh"])), "f", Faces(m["mesh"])),
                 "mesh")
    ELSE IF "voxel" \in DOMAIN m
    THEN DictDel(DictSet(DictSet(m, "v", Vertices(AsBoxes(m["voxel"]))),
                         "f", Faces(AsBoxes(m["voxel"]))), "voxel")
    ELSE m

\* ploot = None, and no mp.plot call made yet
NoPlot == [none |-> TRUE, calls |-> <<>>, created |-> 0]

\* a slip: every item makes a plot of its own
PlotOrAddAlwaysPlots(ploot, method, id, item) ==
    [none |-> FALSE,
     calls |-> << [call |-> "plot", item |-> id, kwargs |-> item] >>,
     created |-> ploot.created + 1]

\* "if ploot is None: ploot = mp.plot(**item) else: ploot.add_...(**item)".
\* A plot is the calls that built it, each with the object it unpacked and
\* the keyword arguments that object held; created counts the mp.plot calls.
PlotOrAdd(ploot, method, id, item) ==
    IF ploot.none
    THEN [none |-> FALSE,
          calls |-> << [call |-> "plot", item |-> id, kwargs |-> item] >>,
          created |-> ploot.created + 1]
    ELSE [none |-> FALSE,
          calls |-> Append(ploot.calls, [call |-> method, item |-> id, kwargs |-> item]),
          created |-> ploot.created]

\* the points loop and the lines loop: the items of a list in order
RECURSIVE PlotLoop(_, _, _, _)
PlotLoop(ploot, method, heap, items) ==
    IF items = <<>> THEN ploot
    ELSE TheOne({ PlotLoop(p, method, heap, Tail(items))
                  : p \in { PlotOrAdd(ploot, method, Head(items), heap[Head(items)]) } })

\* the list an argument stands for: "x if x is not None else []"
OrEmpty(arg) == IF arg.none THEN <<>> ELSE arg.list

\* Viewer.to_html(imports=True, html_frame=False): the page of the plot
ToHtml(ploot) ==
    [kind |-> "html",
     of |-> AsTuple([k \in 1..Len(ploot.calls) |->
                [call |-> ploot.calls[k].call, kwargs |-> ploot.calls[k].kwargs]])]

\* the mesh loop: each dict is rewritten in place, then plotted or added
RECURSIVE MeshLoop(_, _, _)
MeshLoop(ploot, heap, items) ==
    IF items = <<>> THEN [ploot |-> ploot, heap |-> heap]
    ELSE TheOne({ TheOne({ MeshLoop(p, h, Tail(items))
                           : p \in { PlotOrAdd(ploot, "add_mesh", Head(items), h[Head(items)]) } })
                  : h \in { [heap EXCEPT ![Head(items)] = RewriteMesh(heap[Head(items)])] } })

\* a slip: without a plot an empty page is returned
Visualize3dNoError(heap, points, meshes, lines) ==
    TheOne({ TheOne({ TheOne({
        [status |-> "ok", html |-> ToHtml(p3), ploot |-> p3, heap |-> ml.heap]
        : p3 \in { PlotLoop(ml.ploot, "add_lines", ml.heap, OrEmpty(lines)) } })
        : ml \in { MeshLoop(p1, heap, OrEmpty(meshes)) } })
        : p1 \in { PlotLoop(NoPlot, "add_points", heap, OrEmpty(points)) } })

(***************************************************************************)
(* visualize3d(points, meshes, lines), the lists holding objects of heap.  *)
(* The result carries the returned HTML, the plot, and the heap as the     *)
(* call leaves it.  The plotting library is a collaborator: a call to it   *)
(* is recorded with the keyword arguments it was given and always          *)
(* succeeds.                                                               *)
(***************************************************************************)
Visualize3d(heap, points, meshes, lines) ==
    TheOne({ TheOne({ TheOne({
        IF p3.none
        THEN [status |-> "AttributeError", ploot |-> p3, heap |-> ml.heap]
        ELSE [status |-> "ok", html |-> ToHtml(p3), ploot |-> p3, heap |-> ml.heap]
        : p3 \in { PlotLoop(ml.ploot, "add_lines", ml.heap, OrEmpty(lines)) } })
        : ml \in { MeshLoop(p1, heap, OrEmpty(meshes)) } })
        : p1 \in { PlotLoop(NoPlot, "add_points", heap, OrEmpty(points)) } })

---------------------------------------------------------------------------
(* The allocentric-to-egocentric conversion: the body of the scene loop *)

PrincipalAxis == Vec(<<0, 0, 1>>)

\* a slip: the alignment rotation alone is used for the box
AlloToEgoDropsAllocentric(look_at, principal_axis, R_allocentric) ==
    {   IF al.status # "ok" THEN [status |-> al.status]
        ELSE [status |-> "ok",
              R_pa_align |-> al.rot,
              rssd |-> al.rssd,
              R_egocentric |-> al.rot,
              transform |-> Compose[look_at, AsMatrix[al.rot], Ones3]]
        : al \in AlignVectors(look_at, principal_axis) }

\* the outcomes of the loop body for one box, one per outcome of the
\* alignment step: R_pa_align, _, R_egocentric and transform; an error of the
\* alignment step ends the computation before any of them is assigned
AlloToEgo(look_at, principal_axis, R_allocentric) ==
    {   IF al.status # "ok" THEN [status |-> al.status]
        ELSE TheOne({
             [status |-> "ok",
              R_pa_align |-> al.rot,
              rssd |-> al.rssd,
              R_egocentric |-> R_egocentric,
              transform |-> Compose[look_at, AsMatrix[R_egocentric], Ones3]]
             : R_egocentric \in { RotMul(al.rot, R_allocentric) } })
        : al \in AlignVectors(look_at, principal_axis) }

---------------------------------------------------------------------------
(* The notebook's cells *)

\* extent = 0.25
Extent == [n |-> 1, d |-> 4]

\* the loop list of the egocentric cell
Positions == <<-2, -1, 0, 1, 2>>

\* the camera point handed to visualize3d: v = [[0, 0, 0]], point_size 0.4
CameraPoint ==
    [v |-> [kind |-> "array", rows |-> <<ZeroVec>>],
     shading |-> [point_size |-> [n |-> 2, d |-> 5]]]

\* length = 2
Length == 2

\* eps = 0.1
Eps == [n |-> 1, d |-> 10]

\* np.linspace(a, b, num), a and b integers: the values in order
Linspace(a, b, num) == AsTuple([k \in 1..num |-> a + ((k - 1) * (b - a)) \div (num - 1)])

\* angle = np.pi * np.linspace(-1 + eps, 0 - eps, 5): the angles are pi n[k] / d
Angle ==
    [kind |-> "pi_times", n |-> Linspace(-Eps.d + Eps.n, 0 - Eps.n, 5), d |-> Eps.d]

\* half of a number with even coefficients
HalfNum[x \in Number] == NumDiv[x, 2]

\* x = np.cos(angle) * length (the angles are multiples of pi/10)
CentersX == AsTuple([k \in 1..Len(Angle.n) |-> HalfNum[Scale[Length, TwoCos[Angle.n[k]]]]])

\* y = np.zeros_like(x)
CentersY == AsTuple([k \in 1..Len(CentersX) |-> Num(0)])

\* z = np.sin(angle) * length
CentersZ == AsTuple([k \in 1..Len(Angle.n) |-> HalfNum[Scale[Length, TwoSin[Angle.n[k]]]]])

\* object_centers = np.stack((x, y, z)).T: five points of the lower half of
\* the circle of radius 2 in the x-z plane, at the angles -0.9 pi, -0.7 pi,
\* -0.5 pi, -0.3 pi and -0.1 pi.  The middle one is (0, 0, -2); in floating
\* point its x is 1.2e-16, and the alignment is the same half turn about y.
ObjectCenters ==
    AsTuple([k \in 1..Len(CentersX) |-> << CentersX[k], CentersY[k], CentersZ[k] >>])

ImportNames ==
    {"List", "plt", "mp", "np", "trimesh", "display", "HTML", "display_html",
     "R", "compose"}

NameError(name) == [status |-> "NameError", name |-> name]

Ok == [status |-> "ok"]

\* the import cell
ImportCell(n) ==
    [ns |-> [k \in ImportNames |-> "module"] @@ n, out |-> Ok]

\* the cell of mp.website() and def visualize3d
UtilityCell(n) ==
    IF "mp" \notin DOMAIN n THEN [ns |-> n, out |-> NameError("mp")]
    ELSE [ns |-> [visualize3d |-> "function"] @@ n, out |-> Ok]

\* the colour cell: twelve face colours, all different or all the same
ColorCell(n, cube_colors_random) ==
    IF "plt" \notin DOMAIN n THEN [ns |-> n, out |-> NameError("plt")]
    ELSE [ns |-> [cmap |-> "jet",
                  cube_colors_random |-> cube_colors_random,
                  random_colors |-> [kind |-> "colors", faces |-> 12,
                                     uniform |-> ~cube_colors_random]] @@ n,
          out |-> Ok]

BoxDict(box, colors) == [v |-> BoxVertices(box), f |-> BoxFaces(box), c |-> colors]

\* a slip: the position is put on the wrong axis
EgoTranslationWrongAxis(i) == Vec(<<0, i, -1>>)

\* translation = np.array([i, 0, -1])
EgoTranslation(i) == Vec(<<i, 0, -1>>)

EgoTransform(i, rotation) == Compose[EgoTranslation(i), rotation, Ones3]

EgoBox(i, rotation, extent) ==
    Box(<<extent, extent, extent>>, EgoTransform(i, rotation))

\* the list the loop of the egocentric cell builds
EgocentricBoxes(positions, rotation, extent, colors) ==
    AsTuple([k \in 1..Len(positions) |->
                BoxDict(EgoBox(positions[k], rotation, extent), colors)])

\* a slip: the flag stays out of the namespace
EgoSettingsNoFlag(use_random_rotation) ==
    [egocentric_boxes |-> <<>>, extent |-> Extent]

\* the settings the egocentric cell assigns first
EgoSettings(use_random_rotation) ==
    [egocentric_boxes |-> <<>>, extent |-> Extent,
     use_random_rotation |-> use_random_rotation]

\* the objects of a scene's call: the camera point is object 0, box k is
\* object k
SceneHeap(boxes) ==
    Computed([k \in 0..Len(boxes) |-> IF k = 0 THEN CameraPoint ELSE boxes[k]])

SceneIds(boxes) == AsTuple([k \in 1..Len(boxes) |-> k])

\* the calls that end the two scene cells: the camera point and five boxes
SceneCall(boxes) ==
    [heap |-> SceneHeap(boxes), points |-> Some(<<0>>),
     meshes |-> Some(SceneIds(boxes)), lines |-> None]

\* the call of visualize3d that ends a scene cell, with what it leaves
\* behind: the list named boxes_name holds the dicts the call was given
ShowScene(n, offline, boxes_name) ==
    IF "visualize3d" \notin DOMAIN n
    THEN [ns |-> n, out |-> NameError("visualize3d"), offline |-> offline]
    ELSE TheOne({ TheOne({ TheOne({
             IF r.status # "ok"
             THEN [ns |-> (boxes_name :> after) @@ n,
                   out |-> [status |-> r.status], offline |-> TRUE]
             ELSE [ns |-> (boxes_name :> after) @@ [html |-> r.html] @@ n,
                   out |-> [status |-> "ok", displayed |-> r.html],
                   offline |-> TRUE]
             : after \in { AsTuple([k \in 1..Len(given.meshes.list) |-> r.heap[k]]) } })
             : r \in { Visualize3d(given.heap, given.points, given.meshes, given.lines) } })
             : given \in { SceneCall(n[boxes_name]) } })

(***************************************************************************)
(* The egocentric cell.  use_random_rotation is the setting written in the *)
(* cell; q is what R.random() returns when it is drawn.  The statements    *)
(* before a NameError have taken effect.  The names of the import cell are *)
(* defined together, so past the first use of one only random_colors and   *)
(* visualize3d can be missing.  f @@ g is g overwritten by f.              *)
(***************************************************************************)
EgocentricCell(n, offline, use_random_rotation, q) ==
    LET settings == EgoSettings(use_random_rotation)
        need == IF use_random_rotation THEN "R" ELSE "np"
        last == Positions[Len(Positions)]
        Iter(i, rotation) ==
            [i |-> i,
             translation |-> EgoTranslation(i),
             transform |-> EgoTransform(i, rotation),
             box |-> EgoBox(i, rotation, Extent)]
    IN  IF need \notin DOMAIN n
        THEN [ns |-> settings @@ n, out |-> NameError(need), offline |-> offline]
        ELSE TheOne({
             IF "random_colors" \notin DOMAIN n
             THEN [ns |-> Iter(Positions[1], rotation) @@ [rotation |-> rotation]
                          @@ settings @@ n,
                   out |-> NameError("random_colors"), offline |-> offline]
             ELSE TheOne({ ShowScene(after, offline, "egocentric_boxes")
                           : after \in { [egocentric_boxes |->
                                             EgocentricBoxes(Positions, rotation, Extent,
                                                             n["random_colors"])]
                                         @@ Iter(last, rotation) @@ [rotation |-> rotation]
                                         @@ settings @@ n } })
             : rotation \in { IF use_random_rotation THEN AsMatrix[q] ELSE NpEye3 } })

\* the rotations R_allocentric can be in a scene: a draw or the identity
SceneRotations == SceneDraws \cup { FromMatrix[NpEye3] }

\* the loop's R_pa_align, _, R_egocentric and transform for each object
\* center in order, for each rotation R_allocentric can be; no center is
\* the zero vector, so each conversion has one outcome
SceneConversions ==
    Computed([R_allocentric \in SceneRotations |->
        AsTuple([k \in 1..Len(ObjectCenters) |->
            TheOne(AlloToEgo(ObjectCenters[k], PrincipalAxis, R_allocentric))])])

\* the boxes of the allocentric scene, one per object center
AllocentricBoxes(conversions, extent, colors) ==
    AsTuple([k \in 1..Len(conversions) |->
        BoxDict(Box(<<extent, extent, extent>>, conversions[k].transform), colors)])

\* the names the allocentric cell assigns before its loop
AlloSettings(R_allocentric) ==
    [R_allocentric |-> R_allocentric,
     length |-> Length, eps |-> Eps, angle |-> Angle,
     x |-> CentersX, y |-> CentersY, z |-> CentersZ,
     object_centers |-> ObjectCenters,
     allocentric_boxes |-> <<>>]

(***************************************************************************)
(* The allocentric cell.  It reads use_random_rotation and extent, which   *)
(* the egocentric cell assigns; q is R.random()'s draw.  The egocentric    *)
(* cell assigns extent before use_random_rotation, so extent is defined    *)
(* when the latter is.  The name _ takes the second result of              *)
(* R.align_vectors.                                                        *)
(***************************************************************************)
AllocentricCell(n, offline, q) ==
    IF "use_random_rotation" \notin DOMAIN n
    THEN [ns |-> n, out |-> NameError("use_random_rotation"), offline |-> offline]
    ELSE IF "R" \notin DOMAIN n
    THEN [ns |-> n, out |-> NameError("R"), offline |-> offline]
    ELSE
    TheOne({ TheOne({
    LET settings == AlloSettings(R_allocentric)
        count == Len(conversions)
        Iter(i) ==
            ("_" :> conversions[i + 1].rssd) @@
            [i |-> i,
             principal_axis |-> PrincipalAxis,
             look_at |-> ObjectCenters[i + 1],
             R_pa_align |-> conversions[i + 1].R_pa_align,
             R_egocentric |-> conversions[i + 1].R_egocentric,
             transform |-> conversions[i + 1].transform]
        IterBox(i) ==
            [box |-> Box(<<n["extent"], n["extent"], n["extent"]>>,
                         conversions[i + 1].transform)]
    IN  IF "extent" \notin DOMAIN n
        THEN [ns |-> Iter(0) @@ settings @@ n, out |-> NameError("extent"),
              offline |-> offline]
        ELSE IF "random_colors" \notin DOMAIN n
        THEN [ns |-> IterBox(0) @@ Iter(0) @@ settings @@ n,
              out |-> NameError("random_colors"), offline |-> offline]
        ELSE TheOne({ TheOne({ ShowScene(after, offline, "allocentric_boxes")
                 : after \in { [allocentric_boxes |-> boxes, box_plot_data |-> boxes[count]]
                               @@ IterBox(count - 1) @@ Iter(count - 1) @@ settings @@ n } })
                 : boxes \in { AllocentricBoxes(conversions, n["extent"],
                                                n["random_colors"]) } })
    : conversions \in { SceneConversions[R_allocentric] } })
    : R_allocentric \in { IF n["use_random_rotation"] THEN q ELSE FromMatrix[NpEye3] } })

---------------------------------------------------------------------------
(* The notebook as a state machine: any cell may be run at any time *)

Cells == {"imports", "utilities", "colors", "egocentric", "allocentric"}

IdleConvert == [status |-> "idle"]

IdleVisualize == [status |-> "idle"]

\* a fresh kernel: nothing defined, no cell run
Init ==
    /\ ns = <<>>
    /\ out = [c \in Cells |-> [status |-> "never"]]
    /\ mp_offline = FALSE
    /\ c_in = IdleConvert
    /\ c_out = IdleConvert
    /\ v_args = IdleVisualize
    /\ v_out = IdleVisualize

RunImports ==
    /\ ns' = ImportCell(ns).ns
    /\ out' = [out EXCEPT !["imports"] = ImportCell(ns).out]
    /\ UNCHANGED <<mp_offline, c_in, c_out, v_args, v_out>>

RunUtilities ==
    /\ ns' = UtilityCell(ns).ns
    /\ out' = [out EXCEPT !["utilities"] = UtilityCell(ns).out]
    /\ UNCHANGED <<mp_offline, c_in, c_out, v_args, v_out>>

RunColors ==
    \E cube_colors_random \in BOOLEAN :
        /\ ns' = ColorCell(ns, cube_colors_random).ns
        /\ out' = [out EXCEPT !["colors"] = ColorCell(ns, cube_colors_random).out]
        /\ UNCHANGED <<mp_offline, c_in, c_out, v_args, v_out>>

RunEgocentric ==
    \E use_random_rotation \in BOOLEAN, q \in SceneDraws :
        \E r \in { EgocentricCell(ns, mp_offline, use_random_rotation, q) } :
            /\ ns' = r.ns
            /\ out' = [out EXCEPT !["egocentric"] = r.out]
            /\ mp_offline' = r.offline
            /\ UNCHANGED <<c_in, c_out, v_args, v_out>>

RunAllocentric ==
    \E q \in SceneDraws :
        \E r \in { AllocentricCell(ns, mp_offline, q) } :
            /\ ns' = r.ns
            /\ out' = [out EXCEPT !["allocentric"] = r.out]
            /\ mp_offline' = r.offline
            /\ UNCHANGED <<c_in, c_out, v_args, v_out>>

Next ==
    \/ RunImports
    \/ RunUtilities
    \/ RunColors
    \/ RunEgocentric
    \/ RunAllocentric

Spec == Init /\ [][Next]_vars

---------------------------------------------------------------------------
(* One conversion, on inputs of its whole domain *)

\* the object centers and every vector of integer length with small
\* integer coordinates
LookAts ==
    { Vec(v) : v \in { u \in (-MaxCoord..MaxCoord) \X (-MaxCoord..MaxCoord)
                                \X (-MaxCoord..MaxCoord) :
                          IsSquare(u[1] * u[1] + u[2] * u[2] + u[3] * u[3]) } }
    \cup { ObjectCenters[k] : k \in 1..Len(ObjectCenters) }

PrincipalAxes ==
    { ZeroVec, PrincipalAxis, Vec(<<1, 0, 0>>), Vec(<<0, -2, 0>>), Vec(<<2, 1, -2>>) }

AllocentricRotations == RandomQuats \cup { FromMatrix[NpEye3] }

InitConvert ==
    /\ ns = <<>>
    /\ out = [c \in Cells |-> [status |-> "never"]]
    /\ mp_offline = FALSE
    /\ c_in \in [look_at : LookAts, principal_axis : PrincipalAxes,
                 R_allocentric : AllocentricRotations]
    /\ c_out = [status |-> "pending"]
    /\ v_args = IdleVisualize
    /\ v_out = IdleVisualize

Convert ==
    /\ c_out.status = "pending"
    /\ c_out' \in AlloToEgo(c_in.look_at, c_in.principal_axis, c_in.R_allocentric)
    /\ UNCHANGED <<ns, out, mp_offline, c_in, v_args, v_out>>

SpecConvert == InitConvert /\ [][Convert]_vars

---------------------------------------------------------------------------
(* One call of visualize3d, on lists of every shape *)

Array(id) == [kind |-> "array", id |-> id]

Trimesh1 == [kind |-> "Trimesh", id |-> 1]

Voxel1 == [kind |-> "VoxelGrid", id |-> 1]

\* the caller's dict objects: 3 and 4 hold equal dicts
CallerHeap ==
    << CameraPoint,
       [v |-> Array(2), f |-> Array(3)],
       [mesh |-> Trimesh1, c |-> Array(4)],
       [mesh |-> Trimesh1, c |-> Array(4)],
       [voxel |-> Voxel1],
       [mesh |-> Trimesh1, voxel |-> Voxel1],
       [beginning |-> Array(5), ending |-> Array(6)] >>

\* the objects listed as points, as meshes and as lines: 5 may be a point
\* and a mesh, 6 a mesh and a line
PointIds == {1, 5}

MeshIds == {2, 3, 4, 5, 6}

LineIds == {6, 7}

\* the lists of at most MaxItems items, and None
ListsOf(S) == UNION { [1..len -> S] : len \in 0..MaxItems }

ArgsOf(S) == { None } \cup { Some(list) : list \in ListsOf(S) }

\* the calls that end the two scene cells, on boxes of one colour
SceneArgs ==
    { SceneCall(EgocentricBoxes(Positions, NpEye3, Extent, Array(7))),
      SceneCall(AllocentricBoxes(SceneConversions[FromMatrix[NpEye3]], Extent, Array(7))) }

InitVisualize ==
    /\ ns = <<>>
    /\ out = [c \in Cells |-> [status |-> "never"]]
    /\ mp_offline = FALSE
    /\ c_in = IdleConvert
    /\ c_out = IdleConvert
    /\ v_args \in [heap : {CallerHeap}, points : ArgsOf(PointIds),
                   meshes : ArgsOf(MeshIds), lines : ArgsOf(LineIds)] \cup SceneArgs
    /\ v_out = [status |-> "pending"]

\* the call.  Afterwards the caller's objects hold what the call left in
\* them; v_out keeps the arguments as they were given, the plot and the
\* result.
CallVisualize3d ==
    /\ v_out.status = "pending"
    /\ \E r \in { Visualize3d(v_args.heap, v_args.points, v_args.meshes, v_args.lines) } :
           /\ v_out' = [given |-> v_args] @@ [k \in DOMAIN r \ {"heap"} |-> r[k]]
           /\ v_args' = [v_args EXCEPT !.heap = r.heap]
    /\ mp_offline' = TRUE
    /\ UNCHANGED <<ns, out, c_in, c_out>>

SpecVisualize == InitVisualize /\ [][CallVisualize3d]_vars

---------------------------------------------------------------------------
(* Properties of the conversion, under SpecConvert *)

Converted == c_out.status = "ok"

\* the matrix A applied to the vector n / d
MatVecQ(A, u) == [n |-> MatVec[A, u.n].n, d |-> A.d * u.d]

\* two vectors n / d are the same vector
SameVecQ(u, w) == \A i \in 1..3 : Scale[w.d, u.n[i]] = Scale[u.d, w.n[i]]

BasisVectors == { Vec(<<1, 0, 0>>), Vec(<<0, 1, 0>>), Vec(<<0, 0, 1>>), Vec(<<1, 2, -3>>) }

\* C2: for every non-zero target direction and non-zero principal axis the
\* alignment step returns a rotation, and that rotation takes the principal
\* axis, normalised, onto the target direction, normalised: with a the
\* target and b the axis, R (b / |b|) = a / |a|.  The inputs include the
\* five object centers of the scene, the middle one anti-parallel to (0,0,1).
C2_AlignmentMapsAxisOntoTarget ==
    (c_out.status # "pending" /\ c_in.look_at # ZeroVec /\ c_in.principal_axis # ZeroVec)
    => /\ Converted
       /\ SameVecQ([n |-> MatVec[AsMatrix[c_out.R_pa_align], c_in.principal_axis].n,
                    d |-> AsMatrix[c_out.R_pa_align].d * Norm[c_in.principal_axis]],
                   [n |-> c_in.look_at, d |-> Norm[c_in.look_at]])

\* the middle object center of the scene has been aligned with (0, 0, 1)
C2_Witness ==
    /\ Converted
    /\ c_in.look_at = ObjectCenters[3]
    /\ c_in.look_at = Vec(<<0, 0, -2>>)
    /\ c_in.principal_axis = PrincipalAxis
    /\ AsMatrix[c_out.R_pa_align] # NpEye3

\* C3: the egocentric rotation put into the box's transform is the matrix
\* product alignment . allocentric: on any vector the allocentric rotation
\* acts first and the alignment rotation second; where the two orders
\* differ it is not the product allocentric . alignment.
C3_AlignmentAfterAllocentric ==
    Converted =>
        LET A == AsMatrix[c_out.R_pa_align]
            Q == AsMatrix[c_in.R_allocentric]
            E == c_out.transform.R
        IN  /\ E = MatMul[A, Q]
            /\ AsMatrix[c_out.R_egocentric] = E
            /\ \A v \in BasisVectors :
                   SameVecQ(MatVec[E, v], MatVecQ(A, MatVec[Q, v]))
            /\ MatMul[A, Q] # MatMul[Q, A] => E # MatMul[Q, A]

\* a conversion for an outer object center whose two rotations do not commute
C3_Witness ==
    /\ Converted
    /\ c_in.look_at = ObjectCenters[1]
    /\ MatMul[AsMatrix[c_out.R_pa_align], AsMatrix[c_in.R_allocentric]]
         # MatMul[AsMatrix[c_in.R_allocentric], AsMatrix[c_out.R_pa_align]]

C6_IdentityAllocentric ==
    (Converted /\ c_in.R_allocentric = FromMatrix[NpEye3])
    => /\ c_out.R_egocentric = c_out.R_pa_align
       /\ c_out.transform.R = AsMatrix[c_out.R_pa_align]
       /\ (c_in.principal_axis = PrincipalAxis
             /\ c_in.look_at[1] = Num(0) /\ c_in.look_at[2] = Num(0)
             /\ Sgn[c_in.look_at[3]] > 0)
          => /\ AsMatrix[c_out.R_pa_align] = NpEye3
             /\ c_out.transform.R = NpEye3

\* the scenario target (0,0,1), axis (0,0,1), identity has been converted
C6_Witness ==
    /\ Converted
    /\ c_in.R_allocentric = FromMatrix[NpEye3]
    /\ c_in.look_at = Vec(<<0, 0, 1>>)
    /\ c_in.principal_axis = PrincipalAxis

---------------------------------------------------------------------------
(* Properties of the notebook's scenes, under Spec *)

\* the transform a box dict was built with
TransformOf(dict) == dict["v"].of.transform

\* C1: for every box of the allocentric scene, the inverse of the box's own
\* alignment rotation (of the principal axis onto its object center) times
\* the egocentric rotation in its transform is the one allocentric rotation
\* of the scene: inv(R_pa_align_i) . R_egocentric_i = R_allocentric.
C1_RoundTripRecoversAllocentric ==
    "allocentric_boxes" \in DOMAIN ns =>
        \A k \in 1..Len(ns["allocentric_boxes"]) :
            MatMul[AsMatrix[RotInv[TheOne(AlignVectors(ns["object_centers"][k], PrincipalAxis)).rot]],
                   TransformOf(ns["allocentric_boxes"][k]).R]
              = AsMatrix[ns["R_allocentric"]]

\* a scene of five boxes with a drawn allocentric rotation, whose egocentric
\* rotations all differ
C1_Witness ==
    /\ out["allocentric"].status = "ok"
    /\ Len(ns["allocentric_boxes"]) = 5
    /\ AsMatrix[ns["R_allocentric"]] # NpEye3
    /\ \A j, k \in 1..5 :
           j # k => TransformOf(ns["allocentric_boxes"][j]).R
                      # TransformOf(ns["allocentric_boxes"][k]).R

\* C4: once the egocentric cell has run through, there is one box per
\* position, in the order of the positions; every box has the one rotation
\* of the cell (the identity, or the single draw made before the loop);
\* box k is translated to (Positions[k], 0, -1); and the boxes differ in
\* nothing but the translation.
C4_EgocentricBoxesShareRotation ==
    out["egocentric"].status = "ok" =>
        LET boxes == ns["egocentric_boxes"]
        IN  /\ Len(boxes) = Len(Positions)
            /\ IF ns["use_random_rotation"]
               THEN \E q \in SceneDraws : ns["rotation"] = AsMatrix[q]
               ELSE ns["rotation"] = NpEye3
            /\ \A k \in 1..Len(boxes) :
                   /\ TransformOf(boxes[k]).R = ns["rotation"]
                   /\ TransformOf(boxes[k]).T = Vec(<<Positions[k], 0, -1>>)
                   /\ boxes[k]["f"].of = boxes[k]["v"].of
            /\ \A j, k \in 1..Len(boxes) :
                   /\ boxes[j]["v"].of.extents = boxes[k]["v"].of.extents
                   /\ boxes[j]["c"] = boxes[k]["c"]
                   /\ j # k => TransformOf(boxes[j]).T # TransformOf(boxes[k]).T

\* the five boxes of an egocentric scene with a drawn rotation
C4_Witness ==
    /\ out["egocentric"].status = "ok"
    /\ ns["use_random_rotation"]
    /\ Len(ns["egocentric_boxes"]) = 5
    /\ ns["rotation"] # NpEye3

\* the names the preparation cells define
PrepNames == ImportNames \cup {"visualize3d", "cmap", "cube_colors_random", "random_colors"}

Prepared == PrepNames \subseteq DOMAIN ns

Restrict(n, names) == [k \in DOMAIN n \cap names |-> n[k]]

\* a step in which the output of the cell changes is a run of that cell
CellRan(cell) == out'[cell] # out[cell]

\* C7 as stated: after the preparation cells either scene cell runs through
\* whenever it is run, and what it shows is what it would show with nothing
\* but the preparation cells' names defined.
C7_ScenesIndependent ==
    [][Prepared =>
        /\ CellRan("egocentric") =>
              /\ out'["egocentric"].status = "ok"
              /\ \E u \in BOOLEAN, q \in SceneDraws :
                     out'["egocentric"]
                       = EgocentricCell(Restrict(ns, PrepNames), mp_offline, u, q).out
        /\ CellRan("allocentric") =>
              /\ out'["allocentric"].status = "ok"
              /\ \E q \in SceneDraws :
                     out'["allocentric"]
                       = AllocentricCell(Restrict(ns, PrepNames), mp_offline, q).out
      ]_vars

\* C7, amended: after the preparation cells the egocentric cell runs
\* through and shows what it would show with only their names defined.  The
\* allocentric cell reads use_random_rotation and extent, which the
\* egocentric cell assigns: without them it ends in a NameError, with them
\* it runs through and shows what it would show with only these two names
\* and the preparation cells' defined; it runs through whenever the
\* egocentric cell has.
C7_AllocentricReadsEgocentricSettings ==
    [][Prepared =>
        /\ CellRan("egocentric") =>
              /\ out'["egocentric"].status = "ok"
              /\ \E u \in BOOLEAN, q \in SceneDraws :
                     out'["egocentric"]
                       = EgocentricCell(Restrict(ns, PrepNames), mp_offline, u, q).out
        /\ CellRan("allocentric") =>
              IF "use_random_rotation" \in DOMAIN ns
              THEN /\ out'["allocentric"].status = "ok"
                   /\ "extent" \in DOMAIN ns
                   /\ \E q \in SceneDraws :
                          out'["allocentric"]
                            = AllocentricCell(
                                  Restrict(ns, PrepNames \cup {"use_random_rotation", "extent"}),
                                  mp_offline, q).out
              ELSE out'["allocentric"] = NameError("use_random_rotation")
        /\ (CellRan("allocentric") /\ out["egocentric"].status = "ok")
              => out'["allocentric"].status = "ok"
      ]_vars

\* both scenes shown, the allocentric one with a drawn rotation the
\* egocentric cell's setting asked for
C7_Witness ==
    /\ Prepared
    /\ out["egocentric"].status = "ok"
    /\ out["allocentric"].status = "ok"
    /\ ns["use_random_rotation"]
    /\ AsMatrix[ns["R_allocentric"]] # NpEye3

---------------------------------------------------------------------------
(* Properties of visualize3d, under SpecVisualize *)

Called == v_out.status # "pending"

Tagged(list, method) == [k \in 1..Len(list) |-> [call |-> method, item |-> list[k]]]

\* the listed objects in the order the loops meet them, each with the
\* method of its list
ItemsInOrder ==
    Tagged(OrEmpty(v_args.points), "add_points")
    \o Tagged(OrEmpty(v_args.meshes), "add_mesh")
    \o Tagged(OrEmpty(v_args.lines), "add_lines")

\* the number of places of the list that hold the object id
TimesListed(list, id) == Cardinality({ k \in 1..Len(list) : list[k] = id })

\* C8: when at least one list has an item, mp.plot is called exactly once,
\* for the first item of the order points, meshes, lines; every later item
\* is added to that plot with the method of its list, once per place in
\* its list and in order; a point is passed as it was given, a line and a
\* mesh listed once as the call leaves it; the HTML returned is that
\* plot's.  For a scene's call the camera point makes the plot and the five
\* boxes are added as meshes.
C8_OnePlotItemsInOrder ==
    (Called /\ Len(ItemsInOrder) > 0) =>
        LET calls == v_out.ploot.calls
            np == Len(OrEmpty(v_args.points))
            nm == Len(OrEmpty(v_args.meshes))
        IN  /\ v_out.status = "ok"
            /\ v_out.ploot.created = 1
            /\ Len(calls) = Len(ItemsInOrder)
            /\ \A k \in 1..Len(ItemsInOrder) :
                   /\ calls[k].item = ItemsInOrder[k].item
                   /\ calls[k].call = IF k = 1 THEN "plot" ELSE ItemsInOrder[k].call
                   /\ k <= np => calls[k].kwargs = v_out.given.heap[calls[k].item]
                   /\ (k > np /\ k <= np + nm
                         /\ TimesListed(v_args.meshes.list, calls[k].item) = 1)
                      => calls[k].kwargs = v_args.heap[calls[k].item]
                   /\ k > np + nm => calls[k].kwargs = v_args.heap[calls[k].item]
            /\ v_out.html.kind = "html"
            /\ Len(v_out.html.of) = Len(calls)
            /\ \A k \in 1..Len(calls) :
                   v_out.html.of[k] = [call |-> calls[k].call, kwargs |-> calls[k].kwargs]
            /\ v_out.given \in SceneArgs =>
                   /\ calls[1].call = "plot" /\ calls[1].kwargs = CameraPoint
                   /\ Len(calls) = 6
                   /\ \A k \in 2..6 : calls[k].call = "add_mesh"

\* a call with items in all three lists, two of them meshes
C8_Witness ==
    /\ v_out.status = "ok"
    /\ Len(OrEmpty(v_args.points)) > 0
    /\ Len(OrEmpty(v_args.meshes)) = 2
    /\ Len(OrEmpty(v_args.lines)) > 0

\* the outcome of a call without the caller's objects
Outcome(r) == [k \in DOMAIN r \ {"heap", "given"} |-> r[k]]

\* C9: a call with no item at all (each list None or empty) makes no plot
\* and ends in the AttributeError of None.to_html; and whatever the lists,
\* the call does what it does with every None replaced by an empty list.
C9_NoItemsIsAnError ==
    Called =>
        /\ Len(ItemsInOrder) = 0 =>
               /\ v_out.status = "AttributeError"
               /\ v_out.ploot.none
               /\ v_out.ploot.created = 0
               /\ "html" \notin DOMAIN v_out
        /\ Outcome(v_out) =
               Outcome(Visualize3d(v_out.given.heap,
                                   Some(OrEmpty(v_out.given.points)),
                                   Some(OrEmpty(v_out.given.meshes)),
                                   Some(OrEmpty(v_out.given.lines))))

\* a call given None, an empty list and None has ended
C9_Witness ==
    /\ v_out.status = "AttributeError"
    /\ v_out.given.points.none
    /\ ~v_out.given.meshes.none
    /\ v_out.given.lines.none

\* what a mesh dict given as g is after one pass of the mesh loop
RewrittenAs(g, m) ==
    IF "mesh" \in DOMAIN g
    THEN /\ DOMAIN m = (DOMAIN g \ {"mesh"}) \cup {"v", "f"}
         /\ m["v"] = [kind |-> "vertices", of |-> g["mesh"]]
         /\ m["f"] = [kind |-> "faces", of |-> g["mesh"]]
         /\ \A k \in DOMAIN g \ {"mesh", "v", "f"} : m[k] = g[k]
         /\ "voxel" \in DOMAIN g => "voxel" \in DOMAIN m
    ELSE IF "voxel" \in DOMAIN g
    THEN /\ DOMAIN m = (DOMAIN g \ {"voxel"}) \cup {"v", "f"}
         /\ m["v"] = [kind |-> "vertices", of |-> [kind |-> "as_boxes", of |-> g["voxel"]]]
         /\ m["f"] = [kind |-> "faces", of |-> [kind |-> "as_boxes", of |-> g["voxel"]]]
         /\ \A k \in DOMAIN g \ {"voxel", "v", "f"} : m[k] = g[k]
    ELSE m = g

\* what a mesh dict given as g is after two passes or more
RewrittenTwiceAs(g, m) ==
    IF "mesh" \in DOMAIN g /\ "voxel" \in DOMAIN g
    THEN /\ DOMAIN m = (DOMAIN g \ {"mesh", "voxel"}) \cup {"v", "f"}
         /\ m["v"] = [kind |-> "vertices", of |-> [kind |-> "as_boxes", of |-> g["voxel"]]]
         /\ m["f"] = [kind |-> "faces", of |-> [kind |-> "as_boxes", of |-> g["voxel"]]]
         /\ \A k \in DOMAIN g \ {"mesh", "voxel", "v", "f"} : m[k] = g[k]
    ELSE RewrittenAs(g, m)

\* the objects listed in an argument
Listed(arg) == { OrEmpty(arg)[k] : k \in 1..Len(OrEmpty(arg)) }

\* C10 as stated: after a call the dicts listed as points and as lines are
\* as they were given, and each dict listed as a mesh is the given one
\* rewritten once: with a 'mesh' key, v and f come from the mesh and the
\* key is gone (a 'voxel' key beside it stays); otherwise with a 'voxel'
\* key, v and f come from the voxel's boxes and the key is gone; with
\* neither, the dict is unchanged.
C10_OnlyMeshDictsRewritten ==
    Called =>
        /\ v_args.points = v_out.given.points
        /\ v_args.meshes = v_out.given.meshes
        /\ v_args.lines = v_out.given.lines
        /\ DOMAIN v_args.heap = DOMAIN v_out.given.heap
        /\ \A id \in Listed(v_args.points) \cup Listed(v_args.lines) :
               v_args.heap[id] = v_out.given.heap[id]
        /\ \A id \in Listed(v_args.meshes) :
               RewrittenAs(v_out.given.heap[id], v_args.heap[id])
        /\ \A id \in DOMAIN v_args.heap :
               id \notin Listed(v_args.meshes) => v_args.heap[id] = v_out.given.heap[id]

\* C10, amended: a call changes no list and no dict object but those
\* listed as meshes, whatever other list holds them too.  A dict listed
\* once as a mesh is the given one rewritten once: with a 'mesh' key, v and
\* f come from the mesh and the key is gone (a 'voxel' key beside it
\* stays); otherwise with a 'voxel' key, v and f come from the voxel's
\* boxes and the key is gone; with neither, the dict is unchanged.  A dict
\* listed as a mesh more than once is rewritten at each place: given with
\* both keys it ends with v and f from the voxel's boxes and neither key.
\* The dicts of a scene's call are left as they were.
C10_ListedMeshDictsRewrittenPerPlace ==
    Called =>
        /\ v_args.points = v_out.given.points
        /\ v_args.meshes = v_out.given.meshes
        /\ v_args.lines = v_out.given.lines
        /\ DOMAIN v_args.heap = DOMAIN v_out.given.heap
        /\ \A id \in DOMAIN v_args.heap :
               IF id \notin Listed(v_args.meshes)
               THEN v_args.heap[id] = v_out.given.heap[id]
               ELSE IF TimesListed(v_args.meshes.list, id) = 1
               THEN RewrittenAs(v_out.given.heap[id], v_args.heap[id])
               ELSE RewrittenTwiceAs(v_out.given.heap[id], v_args.heap[id])
        /\ v_out.given \in SceneArgs => v_args = v_out.given

\* a call given one dict with both keys twice as a mesh and once as a line,
\* which has left it without either key
C10_Witness ==
    /\ Called
    /\ v_out.given.meshes.list = <<6, 6>>
    /\ v_out.given.lines.list = <<6>>
    /\ DOMAIN v_out.given.heap[6] = {"mesh", "voxel"}
    /\ DOMAIN v_args.heap[6] = {"v", "f"}
    /\ v_out.ploot.calls[Len(v_out.ploot.calls)].kwargs = v_args.heap[6]

============================================================================
